---------------------------- MODULE Spec2Model ----------------------------
(***************************************************************************)
(* Billing and ledger engine of the PAMSIMAS water-utility application.    *)
(*                                                                         *)
(* The sources hold three revisions of the same single-page application:   *)
(*   rev "A"  src/index.tsx lines 1-1018     penalty decided at settlement *)
(*            (past month, or same month after day 10); dashboard report   *)
(*   rev "B"  src/index.tsx lines 1019-1777  penalty decided when the      *)
(*            reading is recorded; cash book with per-month totals         *)
(*   rev "C"  src/sw.js     lines 57-1189    category Sosial; penalty at   *)
(*            settlement for past months only; cash book and report        *)
(* One behaviour runs one revision (variable rev, fixed by Init).          *)
(*                                                                         *)
(* The store is the Firestore database (collections customers, bills,      *)
(* transactions); a write is one document update and may fail.  Every      *)
(* viewer (an open App) has its own copies and its own view state:         *)
(*  - of a bill, the fields the handlers read never change after creation  *)
(*    except isPaid, so the viewer's copy of the bills is the isPaid it    *)
(*    has last received (snapPaid); a bill it has not received yet is a    *)
(*    bill it does not act on;                                             *)
(*  - of a customer, the handlers use the object taken when the operator   *)
(*    opened the recording view or the edit form (ui); a lagging list      *)
(*    gives the object an earlier click would have given, so the click     *)
(*    reads the store and the object ages in ui; customers.find of         *)
(*    togglePaid may miss the customer (input found).                      *)
(* A viewer sees its own writes at once (latency compensation).            *)
(*                                                                         *)
(* Specifications:                                                         *)
(*   Spec        bills, settlement and customer edits: every viewer        *)
(*               settles, the operators record and edit, writes may fail   *)
(*   LedgerSpec  the cash book: an operator records, settles and books     *)
(*               manual transactions; no write fails                       *)
(*   ArrearsSpec two customers recorded and settled by an operator         *)
(*   RecordSpec  every viewer records and edits customers, nothing settled *)
(*   FormSpec    the forms that add customers and manual transactions      *)
(*   ReportSpec  two customers recorded, settled and reported              *)
(*   InterleaveSpec  every viewer records, every write succeeds, no edit   *)
(*   RetrySpec   one operator records, the reading advance may fail        *)
(*   NoticeSpec  two customers recorded and settled by an operator, writes *)
(*               may fail; the messages opened towards the customers       *)
(***************************************************************************)
EXTENDS Integers, Sequences, FiniteSets, TLC

VARIABLES
    rev,           \* the revision that is running
    now,           \* the current instant (Date.now())
    customers,     \* store: customer id -> [type, lastMeterReading]
    bills,         \* store: sequence of Bill documents, in creation order
                   \* (the id of a bill is its position)
    transactions,  \* store: set of manual Transaction documents
    nextTxId,      \* number of transaction documents created so far
    snapPaid,      \* viewer -> bill -> isPaid of the viewer's copy of the bill
    ui,            \* viewer -> view state (selected customer, forms)
    last           \* the handler that made the last step, and its inputs

vars == <<rev, now, customers, bills, transactions, nextTxId,
          snapPaid, ui, last>>

---------------------------------------------------------------------------
(* Bounds of the model *)

MaxInstant == 4
MaxBills == 2
MaxBillsShared == 1
MaxReading == 1
MaxTx == 2

Revs == {"A", "B", "C"}
Viewers == {"v1", "v2"}
\* The viewers that record readings, edit customers and keep the cash book.
Operators == {"v1"}
CustIds == {1}
BillIds == 1..MaxBills

---------------------------------------------------------------------------
(* Constants of the program *)

BIAYA_BEBAN == 7000
BIAYA_DENDA == 5000
TANGGAL_DENDA == 10
TARIF_UMUM == 1500
TARIF_BISNIS == 3000
TARIF_SOSIAL == 0

\* paidDate of a bill that carries no settlement timestamp: the field is
\* absent at creation (Undefined) and written as null by a revert (Null).
Undefined == 0
Null == -1

\* The empty string of a text input.
Empty == -1

\* The entries the operator books in the cash book: kind and amount text.
Entries == {<<"in", 100000>>, <<"out", 40000>>}

---------------------------------------------------------------------------
(* Time.  An instant is a point of a small calendar: every month has the   *)
(* three instants of DaySlots.  Periods come from toISOString (UTC), the   *)
(* day of the month from getDate (local time of a zone ahead of UTC): in   *)
(* the last slot the UTC date is still the last day of the month while the *)
(* local date is already the first of the next one.                        *)

DaySlots == << [utc |-> 10, local |-> 10],
               [utc |-> 11, local |-> 11],
               [utc |-> 30, local |-> 1] >>

Instants == 1..MaxInstant

SlotOf(t) == DaySlots[((t - 1) % Len(DaySlots)) + 1]

\* new Date(t).toISOString().slice(0, 7): the period "YYYY-MM", here the
\* number of the month; periods compare as the strings do.
MonthOf(t) == ((t - 1) \div Len(DaySlots)) + 1

getCurrentMonth == MonthOf(now)

\* new Date().getDate()
getDate == SlotOf(now).local

Months == 1..MonthOf(MaxInstant)

---------------------------------------------------------------------------
(* Helper functions *)

AllTypes == {"Umum", "Bisnis", "Sosial"}

Types == IF rev = "C" THEN {"Umum", "Bisnis", "Sosial"} ELSE {"Umum", "Bisnis"}

\* Text of a meter input: Empty or the digits of a number.
Inputs == {Empty} \cup (0..MaxReading)

\* Number(s) of an input text: Number('') is 0.
Number(s) == IF s = Empty THEN 0 ELSE s

\* padMeter(n): the digits of n, zero-padded; Number reads it back as n.
padMeter(n) == n

\* One tariff for every category.
tarifPerM3Flat(type) == TARIF_UMUM

\* A recording that fixes the penalty in every revision.
dendaAmountInEveryRevision ==
    IF getDate > TANGGAL_DENDA THEN BIAYA_DENDA ELSE 0

\* A recording that already fines on the due day itself.
dendaAmountFromDueDay ==
    IF rev = "B"
    THEN (IF getDate >= TANGGAL_DENDA THEN BIAYA_DENDA ELSE 0)
    ELSE 0

\* tarifPerM3 of RecordingView
tarifPerM3(type) ==
    IF rev = "C"
    THEN (IF type = "Bisnis" THEN TARIF_BISNIS
          ELSE IF type = "Sosial" THEN TARIF_SOSIAL ELSE TARIF_UMUM)
    ELSE (IF type = "Bisnis" THEN TARIF_BISNIS ELSE TARIF_UMUM)

\* dendaAmount of RecordingView: revisions A and C record no penalty,
\* revision B fixes it by the day of the month of the recording.
dendaAmount ==
    IF rev = "B"
    THEN (IF getDate > TANGGAL_DENDA THEN BIAYA_DENDA ELSE 0)
    ELSE 0

\* usage of RecordingView
usageOf(currReadingNum, prevReading) ==
    IF currReadingNum >= prevReading THEN currReadingNum - prevReading ELSE 0

\* A validity check that forgets the comparison with the previous reading.
isValidNotEmpty(input, prevReading) ==
    input # Empty

\* isValid of RecordingView
isValid(input, prevReading) ==
    Number(input) >= prevReading /\ input # Empty

\* newBillData of RecordingView.handleSave
newBillData(cid, type, prevReading, input) ==
    LET currReadingNum == Number(input)
        usage == usageOf(currReadingNum, prevReading)
        biayaPakai == usage * tarifPerM3(type)
        currentBillAmount == BIAYA_BEBAN + biayaPakai + dendaAmount
    IN  [ customerId |-> cid,
          month |-> getCurrentMonth,
          prevReading |-> prevReading,
          currReading |-> currReadingNum,
          usage |-> usage,
          amount |-> currentBillAmount,
          details |-> [ beban |-> BIAYA_BEBAN, pakai |-> biayaPakai,
                        denda |-> dendaAmount,
                        tarifPerM3 |-> tarifPerM3(type) ],
          isPaid |-> FALSE,
          dateCreated |-> now,
          paidDate |-> Undefined ]

---------------------------------------------------------------------------
(* View state of a viewer *)

\* kind "idle": no form open (dashboard, customer list, bill list, cash book)
\* kind "recording": RecordingView with selectedCustomerForRecording = the
\*     customer (cid, type, meter = lastMeterReading) as it was when selected
\* kind "saving": handleSave between its two writes (isSaving = true);
\*     bill = the bill just created
\* kind "editing": the customer form, filled by handleEditClick
Idle == [kind |-> "idle", cid |-> 0, type |-> "", meter |-> 0, bill |-> 0]

\* The phone texts of the customers: customer 1 has a number, customer 2
\* has a blank in the field.
custPhones == <<"081234567", " ">>

\* s.trim() of a phone text.
trim(s) == IF s = " " THEN "" ELSE s

\* A phone test that takes every typed text for a number.
hasPhoneWhenTyped(c) == custPhones[c] # ""

\* hasPhone: customer.phone && customer.phone.trim().length > 0.
hasPhone(c) == custPhones[c] # "" /\ trim(custPhones[c]) # ""

\* History of the last step: the handler that ran (op), the viewer, the bill
\* it was about, the text it was given, for togglePaid the store's bill
\* before the write (pre), whether the handler showed an alert, and the
\* message it opened towards the messaging service (wa).  NoOp after a step
\* that is no handler.
NoOp ==
    [op |-> "none", v |-> "", bill |-> 0, input |-> 0, pre |-> <<>>,
     alert |-> FALSE, wa |-> "none"]

\* A handler that ran without an alert.
Did(op, v, bill, input, pre) ==
    [op |-> op, v |-> v, bill |-> bill, input |-> input, pre |-> pre,
     alert |-> FALSE, wa |-> "none"]

\* A handler that ended in alert(...).
Alerted(op, v, bill, input, pre) ==
    [op |-> op, v |-> v, bill |-> bill, input |-> input, pre |-> pre,
     alert |-> TRUE, wa |-> "none"]

\* A handler that ran without an alert and opened message wa.
Sent(op, v, bill, input, pre, wa) ==
    [op |-> op, v |-> v, bill |-> bill, input |-> input, pre |-> pre,
     alert |-> FALSE, wa |-> wa]

---------------------------------------------------------------------------
(* Initial state: a store with customers and no bill or transaction yet.   *)

Init ==
    /\ rev \in Revs
    /\ now = 1
    /\ customers \in [CustIds -> [type : Types, lastMeterReading : {0}]]
    /\ bills = <<>>
    /\ transactions = {}
    /\ nextTxId = 0
    /\ snapPaid = [v \in Viewers |-> [i \in BillIds |-> FALSE]]
    /\ ui = [v \in Viewers |-> Idle]
    /\ last = NoOp

---------------------------------------------------------------------------
(* Environment *)

\* Time passes.
Tick ==
    /\ \E t \in Instants : t > now /\ now' = t
    /\ last' = NoOp
    /\ UNCHANGED <<rev, customers, bills, transactions, nextTxId,
                   snapPaid, ui>>

\* isPaid of the store's bill i (false while the bill does not exist).
StorePaid(i) == i <= Len(bills) /\ bills[i].isPaid

\* onSnapshot(qBills): the viewer receives the current bills.
SyncBills(v) ==
    /\ snapPaid[v] # [i \in BillIds |-> StorePaid(i)]
    /\ snapPaid' = [snapPaid EXCEPT ![v] = [i \in BillIds |-> StorePaid(i)]]
    /\ last' = NoOp
    /\ UNCHANGED <<rev, now, customers, bills, transactions, nextTxId, ui>>

---------------------------------------------------------------------------
(* RecordingView *)

\* CustomersView: click on a customer card
\* (setSelectedCustomerForRecording(c); setView('recording')).
SelectCustomer(v, c) ==
    /\ ui[v].kind = "idle"
    /\ ui' = [ui EXCEPT ![v] = [kind |-> "recording", cid |-> c,
                                type |-> customers[c].type,
                                meter |-> customers[c].lastMeterReading,
                                bill |-> 0]]
    /\ last' = NoOp
    /\ UNCHANGED <<rev, now, customers, bills, transactions, nextTxId,
                   snapPaid>>

\* RecordingView.handleSave up to the first await: the validity check and
\* addDoc(collection(db, 'bills'), newBillData).  ok: the write succeeds.
HandleSaveAddBill(v, input, ok) ==
    /\ ui[v].kind = "recording"
    /\ LET customer == ui[v]
           prevReading == customer.meter
       IN  IF ~isValid(input, prevReading)
           THEN /\ last' = Did("saveRefused", v, 0, input, <<>>)
                /\ UNCHANGED <<bills, ui>>
           ELSE /\ IF ok
                   THEN /\ bills' = Append(bills,
                              [id |-> Len(bills) + 1]
                              @@ newBillData(customer.cid, customer.type,
                                             prevReading, input))
                        /\ ui' = [ui EXCEPT ![v] =
                              [customer EXCEPT !.kind = "saving",
                                               !.bill = Len(bills) + 1]]
                        /\ last' = Did("billAdded", v, Len(bills) + 1, input, <<>>)
                   ELSE /\ last' = Alerted("addBillFailed", v, 0, input, <<>>)
                        /\ UNCHANGED <<bills, ui>>
    /\ UNCHANGED <<rev, now, customers, transactions, nextTxId, snapPaid>>

\* RecordingView.handleSave after the first await:
\* updateDoc(doc(db, 'customers', customer.id), {lastMeterReading}), then
\* the bill notice if (sendWa && hasPhone), sendWa being hasPhone.
HandleSaveAdvance(v, ok) ==
    /\ ui[v].kind = "saving"
    /\ LET b == bills[ui[v].bill]
       IN  IF ok
           THEN /\ customers' = [customers EXCEPT
                       ![b.customerId].lastMeterReading = b.currReading]
                /\ ui' = [ui EXCEPT ![v] = Idle]
                /\ last' = Sent("readingAdvanced", v, ui[v].bill, 0, <<>>,
                                IF hasPhone(ui[v].cid)
                                THEN "billNotice" ELSE "none")
           ELSE /\ ui' = [ui EXCEPT ![v].kind = "recording", ![v].bill = 0]
                /\ last' = Alerted("advanceFailed", v, ui[v].bill, 0, <<>>)
                /\ UNCHANGED customers
    /\ UNCHANGED <<rev, now, bills, transactions, nextTxId, snapPaid>>

\* "Kembali" / "Batal": leave the recording view or the customer form.
Back(v) ==
    /\ ui[v].kind \in {"recording", "editing"}
    /\ ui' = [ui EXCEPT ![v] = Idle]
    /\ last' = NoOp
    /\ UNCHANGED <<rev, now, customers, bills, transactions, nextTxId,
                   snapPaid>>

---------------------------------------------------------------------------
(* BillsView *)

\* The penalty togglePaid computes when it marks a bill paid.
\* found: the viewer's customer list holds the bill's customer.
dendaOnPay(bill, found, type) ==
    IF rev = "A"
    THEN LET isPastMonth == bill.month < getCurrentMonth
             isLateDay == getDate > TANGGAL_DENDA
         IN  IF isPastMonth \/ (bill.month = getCurrentMonth /\ isLateDay)
             THEN BIAYA_DENDA ELSE 0
    ELSE IF bill.month < getCurrentMonth
         THEN (IF found /\ type = "Sosial" THEN 0 ELSE BIAYA_DENDA)
         ELSE 0

\* A bill list that shows the penalty the bill holds.
displayDendaAsStored(bill, found, type) == bill.details.denda

\* BillsView, the penalty a bill card shows, in the revisions that show one.
\* Revision A: the label "(termasuk denda ...)" of BIAYA_DENDA, shown when
\* bill.details.denda > 0 || potentialDenda > 0.  Revision C: displayDenda.
\* found: customers.find(...) gives the customer (cust).
displayDenda(bill, found, type) ==
    CASE rev = "A" ->
           LET isPastMonth == bill.month < getCurrentMonth
               isLateDay == getDate > TANGGAL_DENDA
               potentialDenda ==
                   IF /\ ~bill.isPaid
                      /\ isPastMonth \/ (bill.month = getCurrentMonth /\ isLateDay)
                   THEN BIAYA_DENDA ELSE 0
           IN  IF bill.details.denda > 0 \/ potentialDenda > 0
               THEN BIAYA_DENDA ELSE 0
      [] rev = "C" ->
           IF ~bill.isPaid
           THEN IF bill.month < getCurrentMonth
                THEN (IF found /\ type = "Sosial" THEN 0 ELSE BIAYA_DENDA)
                ELSE 0
           ELSE bill.details.denda

\* BillsView, the amount of base and penalty a bill card shows.  Revision A:
\* displayAmount.  Revision B: bill.amount.  Revision C: the lines Biaya
\* Beban, Biaya Pakai and Denda, which totalDisplay adds up before it adds
\* the arrears.
displayAmount(bill, found, type) ==
    CASE rev = "A" ->
           LET isPastMonth == bill.month < getCurrentMonth
               isLateDay == getDate > TANGGAL_DENDA
           IN  IF bill.isPaid
               THEN bill.amount
               ELSE IF isPastMonth \/ (bill.month = getCurrentMonth /\ isLateDay)
                    THEN bill.details.beban + bill.details.pakai + BIAYA_DENDA
                    ELSE bill.details.beban + bill.details.pakai
      [] rev = "B" -> bill.amount
      [] rev = "C" ->
           bill.details.beban + bill.details.pakai
               + displayDenda(bill, found, type)

\* A togglePaid that writes the penalty but leaves it out of the amount.
toggledAmountWithoutDenda(bill, isNowPaid, found, type) ==
    LET denda == IF isNowPaid THEN dendaOnPay(bill, found, type) ELSE 0
    IN  [bill EXCEPT !.isPaid = isNowPaid,
                     !.paidDate = IF isNowPaid THEN now ELSE Null,
                     !.amount = bill.details.beban + bill.details.pakai,
                     !.details.denda = denda]

\* A togglePaid whose revert restores the flag and the date but not the money.
toggledRevertKeepsPenalty(bill, isNowPaid, found, type) ==
    IF isNowPaid
    THEN LET denda == dendaOnPay(bill, found, type)
         IN  [bill EXCEPT !.isPaid = TRUE, !.paidDate = now,
                          !.amount = bill.details.beban + bill.details.pakai + denda,
                          !.details.denda = denda]
    ELSE [bill EXCEPT !.isPaid = FALSE, !.paidDate = Null]

\* A togglePaid whose revert clears the penalty but not its share of the
\* amount.
toggledRevertKeepsAmount(bill, isNowPaid, found, type) ==
    LET denda == IF isNowPaid THEN dendaOnPay(bill, found, type) ELSE 0
    IN  [bill EXCEPT !.isPaid = isNowPaid,
                     !.paidDate = IF isNowPaid THEN now ELSE Null,
                     !.amount = IF isNowPaid
                                THEN bill.details.beban + bill.details.pakai + denda
                                ELSE bill.amount,
                     !.details.denda = denda]

\* A togglePaid whose revert leaves the date of the settlement in place.
toggledRevertKeepsPaidDate(bill, isNowPaid, found, type) ==
    LET denda == IF isNowPaid THEN dendaOnPay(bill, found, type) ELSE 0
        finalAmount == bill.details.beban + bill.details.pakai + denda
    IN  IF isNowPaid
        THEN [bill EXCEPT !.isPaid = TRUE, !.paidDate = now,
                          !.amount = finalAmount, !.details.denda = denda]
        ELSE [bill EXCEPT !.isPaid = FALSE,
                          !.amount = finalAmount, !.details.denda = denda]

\* A togglePaid that also moves the bill to the month of its settlement.
toggledMovesMonth(bill, isNowPaid, found, type) ==
    LET denda == IF isNowPaid THEN dendaOnPay(bill, found, type) ELSE 0
    IN  [bill EXCEPT !.isPaid = isNowPaid,
                     !.paidDate = IF isNowPaid THEN now ELSE Null,
                     !.amount = bill.details.beban + bill.details.pakai + denda,
                     !.details.denda = denda,
                     !.month = getCurrentMonth]

\* The fields togglePaid writes: revision B writes isPaid and paidDate only.
toggled(bill, isNowPaid, found, type) ==
    LET denda == IF isNowPaid THEN dendaOnPay(bill, found, type) ELSE 0
        finalAmount == bill.details.beban + bill.details.pakai + denda
        paidDate == IF isNowPaid THEN now ELSE Null
    IN  IF rev = "B"
        THEN [bill EXCEPT !.isPaid = isNowPaid, !.paidDate = paidDate]
        ELSE [bill EXCEPT !.isPaid = isNowPaid, !.paidDate = paidDate,
                          !.amount = finalAmount, !.details.denda = denda]

\* BillsView.togglePaid(billId) by viewer v.  The bill is the viewer's copy:
\* its isPaid is snapPaid[v][i], its other fields never change.
\* found: customers.find(...) gives the customer.  ok: the write succeeds.
\* Revisions A and C open the payment confirmation after the write
\* if (isNowPaid && customer) and hasPhone.
TogglePaid(v, i, found, ok) ==
    /\ ui[v].kind = "idle"
    /\ i \in 1..Len(bills)
    /\ LET isNowPaid == ~snapPaid[v][i]
           type == customers[bills[i].customerId].type
       IN  IF ok
           THEN /\ bills' = [bills EXCEPT
                                ![i] = toggled(@, isNowPaid, found, type)]
                /\ snapPaid' = [snapPaid EXCEPT ![v][i] = isNowPaid]
                /\ last' = Sent(IF isNowPaid THEN "markPaid" ELSE "markUnpaid",
                                v, i, 0, bills[i],
                                IF /\ rev # "B"
                                   /\ isNowPaid
                                   /\ found
                                   /\ hasPhone(bills[i].customerId)
                                THEN "paymentConfirmation" ELSE "none")
           ELSE /\ last' = Alerted("toggleFailed", v, i, 0, bills[i])
                /\ UNCHANGED <<bills, snapPaid>>
    /\ UNCHANGED <<rev, now, customers, transactions, nextTxId, ui>>

---------------------------------------------------------------------------
(* CustomersView *)

\* handleEditClick: the form takes the customer's fields.
HandleEditClick(v, c) ==
    /\ ui[v].kind = "idle"
    /\ ui' = [ui EXCEPT ![v] = [kind |-> "editing", cid |-> c,
                                type |-> customers[c].type,
                                meter |-> padMeter(customers[c].lastMeterReading),
                                bill |-> 0]]
    /\ last' = NoOp
    /\ UNCHANGED <<rev, now, customers, bills, transactions, nextTxId,
                   snapPaid>>

\* CustomersView.handleSave with editingId set (the name is not empty).
\* type, meter: the fields of the form as the operator leaves them; a field
\* the operator does not touch holds what handleEditClick put there.
\* updateDoc writes type and lastMeterReading = Number(initialMeter) || 0.
\* ok: the write succeeds.
HandleSaveCustomer(v, type, meter, ok) ==
    /\ ui[v].kind = "editing"
    /\ type \in Types
    /\ IF ok
       THEN /\ customers' = [customers EXCEPT ![ui[v].cid] =
                   [type |-> type, lastMeterReading |-> Number(meter)]]
            /\ ui' = [ui EXCEPT ![v] = Idle]
            /\ last' = Did("customerSaved", v, 0, meter, <<>>)
       ELSE /\ last' = Alerted("customerSaveFailed", v, 0, meter, <<>>)
            /\ UNCHANGED <<customers, ui>>
    /\ UNCHANGED <<rev, now, bills, transactions, nextTxId, snapPaid>>

\* A form that takes every name for a name.
nameNeverMissing(name) == FALSE

\* !custForm.name
nameMissing(name) == name = ""

\* CustomersView.handleSave with editingId null: the form that adds a
\* customer.  name, type, meter: the fields of the form.  addDoc creates the
\* document with type and lastMeterReading = Number(initialMeter) || 0.
\* ok: the write succeeds.
HandleSaveNewCustomer(v, name, type, meter, ok) ==
    /\ ui[v].kind = "idle"
    /\ type \in Types
    /\ IF nameMissing(name)
       THEN /\ last' = Did("customerRefused", v, 0, name, <<>>)
            /\ UNCHANGED customers
       ELSE IF ok
       THEN /\ customers' =
                   (Cardinality(DOMAIN customers) + 1
                       :> [type |-> type, lastMeterReading |-> Number(meter)])
                   @@ customers
            /\ last' = Did("customerAdded", v, 0, name, <<>>)
       ELSE /\ last' = Alerted("customerAddFailed", v, 0, name, <<>>)
            /\ UNCHANGED customers
    /\ UNCHANGED <<rev, now, bills, transactions, nextTxId, snapPaid, ui>>

---------------------------------------------------------------------------
(* CashBookView *)

\* handleSaveTransaction (revisions A and C) and handleAddTx (revision B).
\* desc, amount: the texts of the form (amount: Empty or digits); date: the
\* date field of revision B's form; revisions A and C stamp Date.now().
\* ok: the write succeeds.
HandleSaveTransaction(v, type, desc, amount, date, ok) ==
    /\ ui[v].kind = "idle"
    /\ rev # "B" => date = now
    /\ IF desc = "" \/ amount = Empty
       THEN /\ last' = Did("transactionRefused", v, 0, <<desc, amount>>, <<>>)
            /\ UNCHANGED <<transactions, nextTxId>>
       ELSE IF ok
       THEN /\ transactions' = transactions \cup
                   {[id |-> nextTxId + 1, type |-> type,
                     amount |-> Number(amount), date |-> date,
                     isManual |-> TRUE]}
            /\ nextTxId' = nextTxId + 1
            /\ last' = Did("transactionAdded", v, 0, <<desc, amount>>, <<>>)
       ELSE /\ last' = Alerted("transactionFailed", v, 0, <<desc, amount>>, <<>>)
            /\ UNCHANGED <<transactions, nextTxId>>
    /\ UNCHANGED <<rev, now, customers, bills, snapPaid, ui>>

\* handleDeleteTransaction(id, isManual) on a row of the cash book, the
\* confirm dialog accepted; revision B has no such handler, revision A lists
\* manual transactions only, and revision C refuses the rows that come from
\* bills.  ok: the write succeeds; a failed deleteDoc rejects the promise of
\* the handler, which nothing catches.
HandleDeleteTransaction(v, id, isManual, ok) ==
    /\ ui[v].kind = "idle"
    /\ rev # "B"
    /\ rev = "A" => isManual
    /\ IF isManual
       THEN \E t \in transactions : t.id = id
       ELSE id \in 1..Len(bills) /\ bills[id].isPaid
    /\ IF ~isManual
       THEN /\ last' = Alerted("deleteRefused", v, id, 0, <<>>)
            /\ UNCHANGED transactions
       ELSE IF ok
       THEN /\ transactions' = {t \in transactions : t.id # id}
            /\ last' = Did("transactionDeleted", v, 0, id, <<>>)
       ELSE /\ last' = Did("deleteFailed", v, 0, id, <<>>)
            /\ UNCHANGED transactions
    /\ UNCHANGED <<rev, now, customers, bills, nextTxId, snapPaid, ui>>

\* reduce((sum, t) => sum + t.amount, 0) over a collection of rows
RECURSIVE SumAmount(_)
SumAmount(rows) ==
    IF rows = {} THEN 0
    ELSE LET t == CHOOSE t \in rows : TRUE
         IN  t.amount + SumAmount(rows \ {t})

\* The bills as a collection of documents.
billRows == {bills[i] : i \in 1..Len(bills)}

\* b.paidDate || b.dateCreated
paidOrCreated(b) ==
    IF b.paidDate \in {Undefined, Null} THEN b.dateCreated ELSE b.paidDate

\* manualTxns (revision C); revision B uses manualTransactions as they are.
manualTxns ==
    {[id |-> t.id, type |-> t.type, amount |-> t.amount, sortDate |-> t.date,
      isManual |-> TRUE] : t \in transactions}

\* A cash book that books a settled bill in the month the bill was issued.
paidBillTxnsByIssueDate ==
    {[id |-> b.id, type |-> "in", amount |-> b.amount,
      sortDate |-> b.dateCreated, isManual |-> FALSE] :
        b \in {r \in billRows : r.isPaid}}

\* A cash book that lists every bill, settled or not.
paidBillTxnsOfEveryBill ==
    {[id |-> b.id, type |-> "in", amount |-> b.amount,
      sortDate |-> paidOrCreated(b), isManual |-> FALSE] : b \in billRows}

\* paidBillTxns (revision C), paidBillsAsTx (revision B)
paidBillTxns ==
    {[id |-> b.id, type |-> "in", amount |-> b.amount,
      sortDate |-> paidOrCreated(b), isManual |-> FALSE] :
        b \in {r \in billRows : r.isPaid}}

\* allTransactions (revision C), filteredTransactions (revision B): the rows
\* of the selected month.
allTransactions(selectedMonth) ==
    {t \in manualTxns \cup paidBillTxns : MonthOf(t.sortDate) = selectedMonth}

\* totalInMonth / monthlyIncome
totalInMonth(selectedMonth) ==
    SumAmount({t \in allTransactions(selectedMonth) : t.type = "in"})

\* totalOutMonth / monthlyExpense
totalOutMonth(selectedMonth) ==
    SumAmount({t \in allTransactions(selectedMonth) : t.type = "out"})

\* balanceMonth / monthlyBalance
balanceMonth(selectedMonth) ==
    totalInMonth(selectedMonth) - totalOutMonth(selectedMonth)

\* A lifetime balance that forgets to keep to the paid bills.
lifetimeBalanceOfAllBills ==
    (SumAmount(billRows)
     + SumAmount({t \in transactions : t.type = "in"}))
    - SumAmount({t \in transactions : t.type = "out"})

\* lifetimeBalance of App
lifetimeBalance ==
    LET totalBillIncome == SumAmount({b \in billRows : b.isPaid})
        totalManualIncome == SumAmount({t \in transactions : t.type = "in"})
        totalManualExpense == SumAmount({t \in transactions : t.type = "out"})
    IN  (totalBillIncome + totalManualIncome) - totalManualExpense

\* handleDownloadReport: the summary block of the report of selectedMonth
\* (CashBookView of revision C, DashboardView of revision A).
reportSummary(selectedMonth) ==
    LET billsInMonth == {b \in billRows : b.month = selectedMonth}
        transactionsInMonth ==
            {t \in transactions : MonthOf(t.date) = selectedMonth}
        waterIncome == SumAmount({b \in billsInMonth : b.isPaid})
        manualIncomeTotal ==
            SumAmount({t \in transactionsInMonth : t.type = "in"})
        totalIncome == waterIncome + manualIncomeTotal
        totalExpense ==
            SumAmount({t \in transactionsInMonth : t.type = "out"})
    IN  [totalIncome |-> totalIncome, totalExpense |-> totalExpense,
         balance |-> totalIncome - totalExpense]

---------------------------------------------------------------------------
(* The detail table of the report *)

\* The names of the customers; no handler of the specifications that export
\* reports changes a name.
custNames == <<"Siti", "Ani">>

\* a.localeCompare(b) compares by the place of the name in the collation;
\* the empty string comes first.
nameRank(name) ==
    CASE name = "" -> 0
      [] name = "Ani" -> 1
      [] name = "Siti" -> 2

localeCompare(a, b) == nameRank(a) - nameRank(b)

\* A lookup that leaves the name of a missing customer blank.
nameOrBlank(known, customerId, placeholder) ==
    IF customerId \in known /\ customerId \in DOMAIN custNames
    THEN custNames[customerId]
    ELSE ""

\* customers.find(c => c.id === customerId)?.name || placeholder, in a
\* viewer whose customer list holds the customers in known
nameOrPlaceholder(known, customerId, placeholder) ==
    IF customerId \in known /\ customerId \in DOMAIN custNames
    THEN custNames[customerId]
    ELSE placeholder

\* The bills as the subscription delivers them: orderBy('dateCreated',
\* 'desc'), the latest bill first.
billsSnapshot == [k \in 1..Len(bills) |-> bills[Len(bills) + 1 - k]]

\* [...rows].sort(by name): the sort is stable, a row goes behind the rows
\* that do not compare greater.
RECURSIVE sortByName(_, _)
sortByName(rows, known) ==
    IF rows = <<>> THEN <<>>
    ELSE LET n == Len(rows)
             sorted == sortByName(SubSeq(rows, 1, n - 1), known)
             key(b) == nameOrPlaceholder(known, b.customerId, "")
             ahead == {k \in 1..Len(sorted) :
                          localeCompare(key(sorted[k]), key(rows[n])) <= 0}
             at == Cardinality(ahead)
         IN  SubSeq(sorted, 1, at) \o <<rows[n]>>
                 \o SubSeq(sorted, at + 1, Len(sorted))

\* A report that lists the bills as the subscription delivers them.
sortedBillsForReportAsDelivered(selectedMonth, known) ==
    SelectSeq(billsSnapshot, LAMBDA b : b.month = selectedMonth)

\* sortedBillsForReport of handleDownloadReport
sortedBillsForReport(selectedMonth, known) ==
    LET billsInMonth ==
            SelectSeq(billsSnapshot, LAMBDA b : b.month = selectedMonth)
    IN  sortByName(billsInMonth, known)

\* The rows of the detail table: No, Nama Pelanggan, Meteran Lama, Meteran
\* Baru, Jumlah Tagihan, Denda, Tunggakan, Status.
reportRows(selectedMonth, known) ==
    LET sorted == sortedBillsForReport(selectedMonth, known)
    IN  [k \in 1..Len(sorted) |->
            LET b == sorted[k]
                jumlahTagihanMurni == b.details.beban + b.details.pakai
                denda == b.details.denda
            IN  [no |-> k,
                 custName |-> nameOrPlaceholder(known, b.customerId, "Unknown"),
                 prevReading |-> b.prevReading,
                 currReading |-> b.currReading,
                 jumlahTagihanMurni |-> jumlahTagihanMurni,
                 denda |-> denda,
                 tunggakan |-> IF ~b.isPaid THEN jumlahTagihanMurni + denda
                               ELSE 0,
                 status |-> IF b.isPaid THEN "Lunas" ELSE "Belum Bayar"]]

\* handleDownloadReport of the dashboard (revision A) and of the cash book
\* (revision C) for selectedMonth, in a viewer whose customer list holds the
\* customers in known; the history keeps the file that was downloaded.
HandleDownloadReport(v, selectedMonth, known) ==
    /\ ui[v].kind = "idle"
    /\ rev # "B"
    /\ last' = Did("reportExported", v, 0, <<selectedMonth, known>>,
                   [summary |-> reportSummary(selectedMonth),
                    rows |-> reportRows(selectedMonth, known)])
    /\ UNCHANGED <<rev, now, customers, bills, transactions, nextTxId,
                   snapPaid, ui>>

---------------------------------------------------------------------------
\* Bills and settlement shared by all viewers.
Next ==
    \/ Tick
    \/ \E v \in Viewers : SyncBills(v)
    \/ \E v \in Operators, c \in CustIds : SelectCustomer(v, c)
    \/ \E v \in Operators, input \in Inputs, ok \in BOOLEAN :
          /\ Len(bills) < MaxBillsShared \/ ~isValid(input, ui[v].meter)
          /\ HandleSaveAddBill(v, input, ok)
    \/ \E v \in Operators, ok \in BOOLEAN : HandleSaveAdvance(v, ok)
    \/ \E v \in Operators : Back(v)
    \/ \E v \in Viewers, i \in BillIds, found \in BOOLEAN, ok \in BOOLEAN :
          TogglePaid(v, i, found, ok)
    \/ \E v \in Operators, c \in CustIds : HandleEditClick(v, c)
    \/ \E v \in Operators, type \in AllTypes, meter \in Inputs, ok \in BOOLEAN :
          HandleSaveCustomer(v, type, meter, ok)

Spec == Init /\ [][Next]_vars

\* The cash book: one operator records, settles and keeps the book; no
\* write fails and no input is refused.
NextLedger ==
    \/ Tick
    \/ \E v \in Operators, c \in CustIds : SelectCustomer(v, c)
    \/ \E v \in Operators :
          Len(bills) < MaxBills /\ HandleSaveAddBill(v, MaxReading, TRUE)
    \/ \E v \in Operators : HandleSaveAdvance(v, TRUE)
    \/ \E v \in Operators, i \in BillIds : TogglePaid(v, i, TRUE, TRUE)
    \/ \E v \in Operators, e \in Entries :
          nextTxId < MaxTx /\ HandleSaveTransaction(v, e[1], "kas", e[2], now, TRUE)
    \/ \E v \in Operators, id \in 1..MaxTx \cup BillIds, isManual \in BOOLEAN :
          HandleDeleteTransaction(v, id, isManual, TRUE)

LedgerSpec == Init /\ [][NextLedger]_vars

---------------------------------------------------------------------------
(* Arrears *)

arrearsOfEveryCustomer(bill) ==
    SumAmount({b \in billRows :
                  ~b.isPaid /\ b.dateCreated < bill.dateCreated})

\* arrears of a row of BillsView (revision C): the customer's unpaid bills
\* created before the bill of the row
arrears(bill) ==
    SumAmount({b \in billRows :
                  /\ b.customerId = bill.customerId
                  /\ ~b.isPaid
                  /\ b.dateCreated < bill.dateCreated})

\* unpaidBills and arrearsTotal of RecordingView, for the customer being
\* recorded; the bills are those of the recording viewer, who made every
\* write of the store in ArrearsSpec
arrearsTotal(customerId) ==
    LET unpaidBills ==
            {b \in billRows : b.customerId = customerId /\ ~b.isPaid}
    IN  SumAmount(unpaidBills)

totalToPayWithoutArrears(v, input) ==
    newBillData(ui[v].cid, ui[v].type, ui[v].meter, input).amount

\* totalToPay of RecordingView = currentBillAmount + arrearsTotal
totalToPay(v, input) ==
    LET currentBillAmount ==
            newBillData(ui[v].cid, ui[v].type, ui[v].meter, input).amount
    IN  currentBillAmount + arrearsTotal(ui[v].cid)

\* Two customers, recorded and settled by one operator; no write fails.
TwoCustIds == {1, 2}

InitTwoCustomers ==
    /\ rev \in Revs
    /\ now = 1
    /\ customers \in [TwoCustIds -> [type : Types, lastMeterReading : {0}]]
    /\ bills = <<>>
    /\ transactions = {}
    /\ nextTxId = 0
    /\ snapPaid = [v \in Viewers |-> [i \in BillIds |-> FALSE]]
    /\ ui = [v \in Viewers |-> Idle]
    /\ last = NoOp

NextArrears ==
    \/ Tick
    \/ \E v \in Operators, c \in TwoCustIds : SelectCustomer(v, c)
    \/ \E v \in Operators, input \in Inputs :
          /\ Len(bills) < MaxBills \/ ~isValid(input, ui[v].meter)
          /\ HandleSaveAddBill(v, input, TRUE)
    \/ \E v \in Operators : HandleSaveAdvance(v, TRUE)
    \/ \E v \in Operators : Back(v)
    \/ \E v \in Operators, i \in BillIds : TogglePaid(v, i, TRUE, TRUE)

ArrearsSpec == InitTwoCustomers /\ [][NextArrears]_vars

\* Recording and customer edits by every viewer at once, within one instant;
\* no bill is settled.
NextRecord ==
    \/ \E v \in Viewers, c \in CustIds : SelectCustomer(v, c)
    \/ \E v \in Viewers, input \in Inputs, ok \in BOOLEAN :
          /\ Len(bills) < MaxBills \/ ~isValid(input, ui[v].meter)
          /\ HandleSaveAddBill(v, input, ok)
    \/ \E v \in Viewers, ok \in BOOLEAN : HandleSaveAdvance(v, ok)
    \/ \E v \in Viewers : Back(v)
    \/ \E v \in Viewers, c \in CustIds : HandleEditClick(v, c)
    \/ \E v \in Viewers, type \in AllTypes, meter \in Inputs, ok \in BOOLEAN :
          HandleSaveCustomer(v, type, meter, ok)

RecordSpec == Init /\ [][NextRecord]_vars

\* The forms of the customer list and of the cash book, filled in or not,
\* with writes that may fail.
MaxCustomers == 2

NextForms ==
    \/ Tick
    \/ \E v \in Operators, name \in {"", "Budi"}, type \in AllTypes,
          meter \in Inputs, ok \in BOOLEAN :
          /\ Cardinality(DOMAIN customers) < MaxCustomers
                \/ nameMissing(name) \/ ~ok
          /\ HandleSaveNewCustomer(v, name, type, meter, ok)
    \/ \E v \in Operators, e \in Entries, desc \in {"", "kas"},
          ok \in BOOLEAN :
          \E amount \in {Empty, 0, e[2]} :
              /\ nextTxId < MaxTx \/ desc = "" \/ amount = Empty \/ ~ok
              /\ HandleSaveTransaction(v, e[1], desc, amount, now, ok)
    \/ \E v \in Operators, id \in 1..MaxTx, ok \in BOOLEAN :
          HandleDeleteTransaction(v, id, TRUE, ok)

FormSpec == Init /\ [][NextForms]_vars

\* The report: one operator records and settles two customers and exports
\* reports; the viewer's customer list may lack a customer when it settles
\* or exports.
NextReport ==
    \/ Tick
    \/ \E v \in Operators, c \in TwoCustIds : SelectCustomer(v, c)
    \/ \E v \in Operators :
          Len(bills) < MaxBills /\ HandleSaveAddBill(v, MaxReading, TRUE)
    \/ \E v \in Operators : HandleSaveAdvance(v, TRUE)
    \/ \E v \in Operators, i \in BillIds, found \in BOOLEAN :
          TogglePaid(v, i, found, TRUE)
    \/ \E v \in Operators, selectedMonth \in Months,
          known \in SUBSET TwoCustIds :
          HandleDownloadReport(v, selectedMonth, known)

ReportSpec == InitTwoCustomers /\ [][NextReport]_vars

\* The messages: one operator records and settles a customer with a phone
\* and a customer without; every write may fail and the viewer's customer
\* list may lack the customer when it settles.
NextNotice ==
    \/ Tick
    \/ \E v \in Operators, c \in TwoCustIds : SelectCustomer(v, c)
    \/ \E v \in Operators, ok \in BOOLEAN :
          Len(bills) < MaxBills /\ HandleSaveAddBill(v, MaxReading, ok)
    \/ \E v \in Operators, ok \in BOOLEAN : HandleSaveAdvance(v, ok)
    \/ \E v \in Operators : Back(v)
    \/ \E v \in Operators, i \in BillIds, found \in BOOLEAN, ok \in BOOLEAN :
          TogglePaid(v, i, found, ok)

NoticeSpec == InitTwoCustomers /\ [][NextNotice]_vars

\* Recordings of every viewer interleaved; every write succeeds and no
\* customer is edited.
NextInterleave ==
    \/ Tick
    \/ \E v \in Viewers, c \in CustIds : SelectCustomer(v, c)
    \/ \E v \in Viewers, input \in Inputs :
          /\ Len(bills) < MaxBills \/ ~isValid(input, ui[v].meter)
          /\ HandleSaveAddBill(v, input, TRUE)
    \/ \E v \in Viewers : HandleSaveAdvance(v, TRUE)
    \/ \E v \in Viewers : Back(v)

InterleaveSpec == Init /\ [][NextInterleave]_vars

\* One operator records; the second write of handleSave may fail and the
\* operator may save again; no customer is edited.
NextRetry ==
    \/ Tick
    \/ \E v \in Operators, c \in CustIds : SelectCustomer(v, c)
    \/ \E v \in Operators, input \in Inputs :
          /\ Len(bills) < MaxBills \/ ~isValid(input, ui[v].meter)
          /\ HandleSaveAddBill(v, input, TRUE)
    \/ \E v \in Operators, ok \in BOOLEAN : HandleSaveAdvance(v, ok)
    \/ \E v \in Operators : Back(v)

RetrySpec == Init /\ [][NextRetry]_vars

---------------------------------------------------------------------------
(* Properties of bills and settlement (specification Spec) *)

\* C1: every bill of the store has amount = details.beban + details.pakai +
\* details.denda, after its creation and after every togglePaid of any
\* viewer, for every category and every penalty outcome.
C1_AmountIsSumOfDetails ==
    \A i \in 1..Len(bills) :
        bills[i].amount = bills[i].details.beban + bills[i].details.pakai
                          + bills[i].details.denda

\* A bill with a usage fee was marked paid with the penalty.
C1_PaidWithPenalty ==
    \E i \in 1..Len(bills) :
        /\ bills[i].isPaid
        /\ bills[i].details.denda = BIAYA_DENDA
        /\ bills[i].details.pakai > 0
        /\ last.op = "markPaid" /\ last.bill = i

\* C2: when handleSave has ended, whether its second write succeeded or
\* failed, the bill it created has its currReading in its customer's
\* lastMeterReading: bill and reading advance are one unit.
C2_BillAndAdvanceAreOneUnit ==
    last.op \in {"readingAdvanced", "advanceFailed"} =>
        customers[bills[last.bill].customerId].lastMeterReading
            = bills[last.bill].currReading

\* The penalty the settlement-time policy prescribes for a bill of period
\* month settled at instant t.
prescribedDenda(month, t) ==
    IF month < MonthOf(t) \/ (month = MonthOf(t) /\ SlotOf(t).local > TANGGAL_DENDA)
    THEN BIAYA_DENDA ELSE 0

\* C3: in the revisions that decide the penalty at settlement, every paid
\* bill (of a customer that is not Sosial) carries the penalty prescribed for
\* its paidDate: 5000 for an earlier period or for the same period after day
\* 10, else 0, and its amount includes it.
C3_PaidBillCarriesPrescribedPenalty ==
    rev \in {"A", "C"} =>
        \A i \in 1..Len(bills) :
            (bills[i].isPaid /\ customers[bills[i].customerId].type # "Sosial") =>
                /\ bills[i].details.denda
                       = prescribedDenda(bills[i].month, bills[i].paidDate)
                /\ bills[i].amount = bills[i].details.beban + bills[i].details.pakai
                                     + prescribedDenda(bills[i].month, bills[i].paidDate)

\* C4: handleSave refuses a reading that is empty or lower than the last
\* reading of the customer it records for (lastMeterReading of the customer
\* the recording view was opened with), and then writes nothing to the
\* store; it refuses no other reading; the bill it creates for a reading r
\* has prevReading = last reading, currReading = r, usage = r - last reading.
C4_ReadingRefusedOrBilledExactly ==
    [][\A v \in Viewers :
          /\ (last'.op = "saveRefused" /\ last'.v = v) =>
                /\ last'.input = Empty \/ Number(last'.input) < ui[v].meter
                /\ UNCHANGED <<customers, bills, transactions>>
          /\ (last'.op \in {"billAdded", "addBillFailed"} /\ last'.v = v) =>
                last'.input # Empty /\ Number(last'.input) >= ui[v].meter
          /\ (last'.op = "billAdded" /\ last'.v = v) =>
                /\ Len(bills') = Len(bills) + 1
                /\ bills'[last'.bill].prevReading = ui[v].meter
                /\ bills'[last'.bill].currReading = Number(last'.input)
                /\ bills'[last'.bill].usage = Number(last'.input) - ui[v].meter
      ]_vars

\* A reading lower than the last reading was refused.
C4_LowerReadingRefused ==
    /\ last.op = "saveRefused"
    /\ last.input # Empty
    /\ Number(last.input) < ui[last.v].meter

\* C5: a mark-paid request on a bill that is already paid in the store, and
\* a mark-unpaid request on a bill that is already unpaid, change nothing of
\* the bill.
C5_SettlementIsIdempotent ==
    /\ (last.op = "markPaid" /\ last.pre.isPaid) => bills[last.bill] = last.pre
    /\ (last.op = "markUnpaid" /\ ~last.pre.isPaid) =>
           /\ bills[last.bill].amount = last.pre.amount
           /\ bills[last.bill].details = last.pre.details
           /\ ~bills[last.bill].isPaid

\* The state a revert is to leave: unpaid, no settlement date, no penalty.
reverted(bill) ==
    /\ ~bill.isPaid
    /\ bill.paidDate = Null
    /\ bill.details.denda = 0
    /\ bill.amount = bill.details.beban + bill.details.pakai

C7_SosialBillsCarryNoPenalty ==
    \A i \in 1..Len(bills) :
        customers[bills[i].customerId].type = "Sosial" =>
            bills[i].details.denda = 0

\* The fields of a bill that are fixed when it is created.
createdFields(b) ==
    [id |-> b.id, customerId |-> b.customerId, month |-> b.month,
     prevReading |-> b.prevReading, currReading |-> b.currReading,
     usage |-> b.usage, beban |-> b.details.beban, pakai |-> b.details.pakai,
     tarifPerM3 |-> b.details.tarifPerM3, dateCreated |-> b.dateCreated]

tariffOf(type) ==
    CASE type = "Umum" -> 1500
      [] type = "Bisnis" -> 3000
      [] type = "Sosial" -> 0

\* The bill handleSave has just created is the bill of the claim for the
\* customer's category and last reading as the store holds them, given the
\* penalty the policy sets at creation.
createdAsPrescribed(denda) ==
    LET b == bills[last.bill]
        customer == customers[b.customerId]
        r == Number(last.input)
        tarif == tariffOf(customer.type)
    IN  /\ ~b.isPaid
        /\ b.month = getCurrentMonth
        /\ b.details.beban = 7000
        /\ b.details.tarifPerM3 = tarif
        /\ b.details.pakai = (r - customer.lastMeterReading) * tarif
        /\ b.details.denda = denda
        /\ b.amount = 7000 + b.details.pakai + denda

\* C16 as stated, for every revision: the bill created by handleSave for an
\* accepted reading r is unpaid, of the current period, with beban 7000, the
\* tariff of the category, pakai = (r - last reading) x tariff, denda 0 and
\* amount = 7000 + pakai.
C16_CreatedBillHasNoPenaltyEverywhere ==
    last.op = "billAdded" => createdAsPrescribed(0)

\* C16: in the revisions that decide the penalty at settlement, the bill
\* created by handleSave for an accepted reading r is unpaid, of the current
\* period, with beban 7000, the tariff of the category (1500 Umum, 3000
\* Bisnis, 0 Sosial), pakai = (r - last reading) x tariff, denda 0 and
\* amount = 7000 + pakai; in the record-time revision the same holds with
\* denda 5000 in place of 0 when the recording falls after day 10.
C16_CreatedBillIsPrescribed ==
    last.op = "billAdded" =>
        createdAsPrescribed(IF rev = "B" /\ getDate > 10 THEN 5000 ELSE 0)

\* A reading with usage has been recorded after day 10 under a
\* settlement-time revision.
C16_UsageRecordedAfterDueDay ==
    /\ last.op = "billAdded"
    /\ rev \in {"A", "C"}
    /\ bills[last.bill].usage > 0
    /\ bills[last.bill].details.pakai > 0
    /\ getDate > 10

\* C17: for every unpaid bill of the store and every instant, togglePaid
\* marking it paid and togglePaid reverting it give back the isPaid, the
\* amount and the details.denda the bill had before it was marked paid,
\* whether or not the viewer finds the customer.
C17_SettlementRoundTrip ==
    \A i \in 1..Len(bills), foundAtPay \in BOOLEAN, foundAtRevert \in BOOLEAN :
        ~bills[i].isPaid =>
            LET type == customers[bills[i].customerId].type
                paid == toggled(bills[i], TRUE, foundAtPay, type)
                back == toggled(paid, FALSE, foundAtRevert, type)
            IN  /\ paid.isPaid
                /\ back.isPaid = bills[i].isPaid
                /\ back.amount = bills[i].amount
                /\ back.details.denda = bills[i].details.denda

\* A bill settled with a penalty has been reverted by togglePaid, at an
\* instant at which settling it again brings the penalty back.
C17_RevertedBillWouldBePenalised ==
    /\ last.op = "markUnpaid"
    /\ last.pre.isPaid
    /\ last.pre.amount = bills[last.bill].amount + BIAYA_DENDA
    /\ bills[last.bill].details.denda = 0
    /\ dendaOnPay(bills[last.bill], TRUE,
                  customers[bills[last.bill].customerId].type) = BIAYA_DENDA

\* The penalty the record-time policy fixes for a bill created at instant t:
\* 5000 when the day of the month of t is after day 10.
recordTimeDenda(t) == IF SlotOf(t).local > 10 THEN 5000 ELSE 0

\* C19: under the record-time policy (revision B) every bill carries the
\* penalty fixed by the day of the month of its creation, 5000 after day 10
\* and 0 otherwise, with amount = beban + pakai + that penalty, and no step,
\* mark-paid or mark-unpaid, changes the details.denda or the amount of a
\* bill.
C19_RecordTimePenaltyIsFixed ==
    /\ [](rev = "B" =>
            \A i \in 1..Len(bills) :
                /\ bills[i].details.denda = recordTimeDenda(bills[i].dateCreated)
                /\ bills[i].amount =
                      bills[i].details.beban + bills[i].details.pakai
                      + recordTimeDenda(bills[i].dateCreated))
    /\ [][rev = "B" =>
            \A i \in 1..Len(bills) :
                /\ bills'[i].details.denda = bills[i].details.denda
                /\ bills'[i].amount = bills[i].amount]_vars

\* Under the record-time policy a bill recorded after day 10 has been
\* settled in a later month and reverted, and still carries its penalty.
C19_LateBillSettledAndReverted ==
    /\ rev = "B"
    /\ last.op = "markUnpaid"
    /\ last.pre.isPaid
    /\ MonthOf(last.pre.paidDate) > bills[last.bill].month
    /\ bills[last.bill].details.denda = BIAYA_DENDA

\* C24: in every state a bill of the store has a settlement timestamp (a
\* paidDate that is an instant, neither absent nor null) exactly when its
\* isPaid is true: a new bill has neither, and every togglePaid writes both
\* together.
C24_PaidDateIffPaid ==
    \A i \in 1..Len(bills) :
        bills[i].isPaid <=> bills[i].paidDate \notin {Undefined, Null}

\* A settled bill, stamped with its settlement, has been reverted and its
\* stamp cleared.
C24_StampClearedByRevert ==
    /\ last.op = "markUnpaid"
    /\ last.pre.isPaid
    /\ last.pre.paidDate \in Instants
    /\ ~bills[last.bill].isPaid
    /\ bills[last.bill].paidDate = Null

\* C25: under the settlement-time policy (revisions A and C) every unpaid
\* bill of the store has details.denda = 0 and amount = beban + pakai, so
\* the arrears of a customer, summed over its unpaid bills, hold no penalty.
C25_UnpaidBillsCarryNoPenalty ==
    rev \in {"A", "C"} =>
        /\ \A i \in 1..Len(bills) :
              ~bills[i].isPaid =>
                  /\ bills[i].details.denda = 0
                  /\ bills[i].amount =
                        bills[i].details.beban + bills[i].details.pakai
        /\ \A c \in DOMAIN customers :
              arrearsTotal(c) =
                  SumAmount({[id |-> b.id,
                              amount |-> b.details.beban + b.details.pakai] :
                                b \in {r \in billRows :
                                          r.customerId = c /\ ~r.isPaid}})

\* Under the settlement-time policy a bill settled with a penalty has been
\* reverted and now counts in the arrears of its customer without it.
C25_ArrearsAfterPenalisedRevert ==
    /\ rev \in {"A", "C"}
    /\ last.op = "markUnpaid"
    /\ last.pre.details.denda = BIAYA_DENDA
    /\ arrearsTotal(bills[last.bill].customerId)
          = bills[last.bill].details.beban + bills[last.bill].details.pakai

---------------------------------------------------------------------------
(* Properties of the cash book (specification LedgerSpec) *)

\* The manual transactions of kind type dated in period P.
manualIn(type, P) ==
    {t \in transactions : t.type = type /\ MonthOf(t.date) = P}

\* The paid bills whose settlement timestamp falls in period P.
settledIn(P) ==
    {b \in billRows : b.isPaid /\ b.paidDate \in Instants /\ MonthOf(b.paidDate) = P}

\* C8: for every period P the cash book's inflow is the manual 'in'
\* transactions dated in P plus the amounts of the paid bills whose paidDate
\* falls in P, its outflow the manual 'out' transactions dated in P, and its
\* balance inflow - outflow; a bill of an earlier month paid in P counts in P.
C8_LedgerCountsBySettlementPeriod ==
    rev \in {"B", "C"} =>
        \A P \in Months :
            /\ totalInMonth(P) = SumAmount(manualIn("in", P)) + SumAmount(settledIn(P))
            /\ totalOutMonth(P) = SumAmount(manualIn("out", P))
            /\ balanceMonth(P) = totalInMonth(P) - totalOutMonth(P)

\* A bill of an earlier month is paid in a period that also has a manual
\* inflow and a manual outflow.
C8_EarlierBillPaidInBusyPeriod ==
    /\ rev \in {"B", "C"}
    /\ \E P \in Months :
        /\ \E b \in settledIn(P) : b.month < P
        /\ manualIn("in", P) # {}
        /\ manualIn("out", P) # {}

\* C9: the summary of the report of period P gives the inflow, outflow and
\* balance the cash book computes for P from the same bills and transactions.
C9_ReportAgreesWithLedger ==
    rev = "C" =>
        \A P \in Months :
            /\ reportSummary(P).totalIncome = totalInMonth(P)
            /\ reportSummary(P).totalExpense = totalOutMonth(P)
            /\ reportSummary(P).balance = balanceMonth(P)

\* The periods that hold a manual transaction or a settled bill.
activePeriods == {P \in Months : allTransactions(P) # {}}

RECURSIVE SumBalance(_)
SumBalance(periods) ==
    IF periods = {} THEN 0
    ELSE LET P == CHOOSE P \in periods : TRUE
         IN  balanceMonth(P) + SumBalance(periods \ {P})

\* C10: the lifetime balance (paid bills + manual inflows - manual outflows)
\* is the sum of the period balances over the periods that hold a manual
\* transaction or a settled bill.
C10_LifetimeIsSumOfPeriods ==
    rev \in {"B", "C"} => lifetimeBalance = SumBalance(activePeriods)

\* Two periods are active, with a settled bill, an unpaid bill and an outflow.
C10_TwoActivePeriods ==
    /\ rev \in {"B", "C"}
    /\ Cardinality(activePeriods) >= 2
    /\ \E b \in billRows : b.isPaid
    /\ \E b \in billRows : ~b.isPaid
    /\ \E t \in transactions : t.type = "out"

\* The rows of the cash book, every month together.
ledgerRows == UNION {allTransactions(P) : P \in Months}

\* The rows of the cash book that come from bill i.
billInflows(i) == {t \in ledgerRows : ~t.isManual /\ t.id = i}

\* C12: in the cash book a paid bill is exactly one inflow of its amount and
\* an unpaid bill none; handleDeleteTransaction on a row that is not manual
\* writes nothing to the store, no deletion changes a bill, and the inflow of
\* a bill leaves the cash book only by togglePaid marking the bill unpaid.
C12_PaidBillIsOneUndeletableInflow ==
    /\ [](rev \in {"B", "C"} =>
            \A i \in 1..Len(bills) :
                /\ Cardinality(billInflows(i)) =
                      (IF bills[i].isPaid THEN 1 ELSE 0)
                /\ \A t \in billInflows(i) :
                      t.type = "in" /\ t.amount = bills[i].amount)
    /\ [][/\ last'.op = "deleteRefused" =>
                /\ transactions' = transactions
                /\ bills' = bills
                /\ customers' = customers
          /\ last'.op = "transactionDeleted" => bills' = bills
          /\ rev \in {"B", "C"} =>
                \A i \in 1..Len(bills) :
                    (billInflows(i) # {} /\ billInflows(i)' = {}) =>
                        (last'.op = "markUnpaid" /\ last'.bill = i)]_vars

\* The operator has just asked to delete the row of a paid bill.
C12_DeleteOfBillRowRefused ==
    /\ last.op = "deleteRefused"
    /\ bills[last.bill].isPaid
    /\ Cardinality(billInflows(last.bill)) = 1
    /\ transactions # {}

---------------------------------------------------------------------------
(* Properties of arrears (specification ArrearsSpec) *)

\* The arrears of customer c at a cutoff instant, bill by bill: the amounts
\* of the first n bills of the store that belong to c, are unpaid and were
\* created strictly before the cutoff.
RECURSIVE arrearsBefore(_, _, _)
arrearsBefore(n, c, cutoff) ==
    IF n = 0 THEN 0
    ELSE arrearsBefore(n - 1, c, cutoff)
         + (IF /\ bills[n].customerId = c
               /\ ~bills[n].isPaid
               /\ bills[n].dateCreated < cutoff
            THEN bills[n].amount ELSE 0)

\* An instant later than the creation of every bill a viewer holds: the
\* cutoff of a recording.
afterEveryBill == MaxInstant + 1

\* C11: for every customer and cutoff, the arrears are the sum of amount
\* over exactly the customer's bills that are unpaid and were created
\* strictly before the cutoff, and 0 when there is no such bill; bills of
\* other customers, paid bills and bills created at or after the cutoff
\* never contribute.  The cutoff of a BillsView row is the creation of its
\* bill, that of RecordingView is the recording itself.
C11_ArrearsSumUnpaidEarlierBills ==
    /\ \A i \in 1..Len(bills) :
          /\ arrears(bills[i]) =
                arrearsBefore(Len(bills), bills[i].customerId,
                              bills[i].dateCreated)
          /\ (\A j \in 1..Len(bills) :
                 \/ bills[j].customerId # bills[i].customerId
                 \/ bills[j].isPaid
                 \/ bills[j].dateCreated >= bills[i].dateCreated)
             => arrears(bills[i]) = 0
    /\ \A c \in DOMAIN customers :
          /\ arrearsTotal(c) = arrearsBefore(Len(bills), c, afterEveryBill)
          /\ (\A j \in 1..Len(bills) :
                 bills[j].customerId # c \/ bills[j].isPaid)
             => arrearsTotal(c) = 0

\* A bill with arrears from an earlier unpaid bill of its customer.
C11_LaterBillWithArrears ==
    /\ Len(bills) = 2
    /\ bills[1].customerId = bills[2].customerId
    /\ ~bills[1].isPaid
    /\ bills[1].dateCreated < bills[2].dateCreated
    /\ arrears(bills[2]) = bills[1].amount
    /\ arrears(bills[2]) > 0

\* C18: when handleSave creates a bill, the total payable it computed for
\* the customer, which it shows and puts in the notification, is the amount
\* of the new bill plus the arrears of the customer: the sum of amount over
\* the customer's bills created before the new one and still unpaid.
C18_TotalIsNewBillPlusArrears ==
    [][last'.op = "billAdded" =>
          LET new == bills'[last'.bill]
          IN  totalToPay(last'.v, last'.input) =
                  new.amount
                  + arrearsBefore(Len(bills), new.customerId, afterEveryBill)]_vars

\* A second bill has been recorded for a customer whose first bill is unpaid.
C18_RecordedWithPriorUnpaidBill ==
    /\ last.op = "billAdded"
    /\ last.bill = 2
    /\ bills[1].customerId = bills[2].customerId
    /\ ~bills[1].isPaid
    /\ bills[1].amount > 0

---------------------------------------------------------------------------
(* Properties of concurrent recording (specification RecordSpec) *)

\* C14: whenever a viewer has saved a reading, the prevReading of the bill
\* it wrote is the lastMeterReading the store holds for the customer, and
\* the reading it accepted is not below that value, also when another
\* viewer recorded for or edited the customer after the recording view was
\* opened.
C14_RecordingUsesStoreReading ==
    last.op = "billAdded" =>
        LET b == bills[last.bill]
            stored == customers[b.customerId].lastMeterReading
        IN  /\ b.prevReading = stored
            /\ b.currReading >= stored

\* The latest bill of customer c: the bill of c created last.
latestBillOf(c) ==
    LET own == {i \in 1..Len(bills) : bills[i].customerId = c}
    IN  bills[CHOOSE i \in own : \A j \in own : j <= i]

\* C26: when no handleSave is between its two writes, the lastMeterReading
\* the store holds for a customer with bills is the currReading of the
\* customer's most recently created bill, whatever the interleaving of the
\* recordings of the viewers.
C26_ReadingFollowsLatestBill ==
    (\A v \in Viewers : ui[v].kind # "saving") =>
        \A c \in DOMAIN customers :
            (\E i \in 1..Len(bills) : bills[i].customerId = c) =>
                customers[c].lastMeterReading = latestBillOf(c).currReading

\* C27: for each customer the bills in the order of their creation form a
\* chain: the prevReading of a bill is the currReading of the customer's
\* bill before it, also after a save whose second write failed and which
\* the operator made again.
C27_BillsFormAChain ==
    \A i, j \in 1..Len(bills) :
        (/\ i < j
         /\ bills[i].customerId = bills[j].customerId
         /\ bills[i].dateCreated <= bills[j].dateCreated
         /\ \A k \in (i + 1)..(j - 1) :
               bills[k].customerId # bills[i].customerId)
        => bills[j].prevReading = bills[i].currReading

\* C28: saving a customer edit whose meter field the operator left as the
\* form showed it leaves the stored lastMeterReading as it is, also when
\* another viewer advanced the reading while the form was open.
C28_EditKeepsAdvancedReading ==
    [][\A v \in Viewers :
          (/\ ui[v].kind = "editing"
           /\ last'.op = "customerSaved"
           /\ last'.v = v
           /\ last'.input = ui[v].meter)
          => customers'[ui[v].cid].lastMeterReading
                 = customers[ui[v].cid].lastMeterReading]_vars

---------------------------------------------------------------------------
(* Properties of the forms (specification FormSpec) *)

\* The handlers that ended because their store write failed.
failedWrites ==
    {"addBillFailed", "advanceFailed", "toggleFailed", "customerSaveFailed",
     "customerAddFailed", "transactionFailed", "deleteFailed"}

\* C15: every handler whose store write failed has signalled the failure to
\* the operator: no failed write is dropped without an alert.
C15_FailedWriteIsSignalled ==
    last.op \in failedWrites => last.alert

\* C20: saving a new customer with an empty name, or a manual transaction
\* with an empty description or an empty amount, is refused: a write is
\* attempted only for a filled form, and the refusal leaves the customers,
\* the transactions and the bills of the store unchanged.
C20_EmptyFormIsRefused ==
    /\ [](/\ last.op \in {"customerAdded", "customerAddFailed"} =>
                last.input # ""
          /\ last.op \in {"transactionAdded", "transactionFailed"} =>
                last.input[1] # "" /\ last.input[2] # Empty)
    /\ [][/\ last'.op = "customerRefused" => last'.input = ""
          /\ last'.op = "transactionRefused" =>
                last'.input[1] = "" \/ last'.input[2] = Empty
          /\ last'.op \in {"customerRefused", "transactionRefused"} =>
                /\ customers' = customers
                /\ transactions' = transactions
                /\ nextTxId' = nextTxId
                /\ bills' = bills]_vars

\* A customer form without a name has been refused in a store that already
\* holds an added customer and a manual transaction.
C20_NamelessCustomerRefused ==
    /\ last.op = "customerRefused"
    /\ Cardinality(DOMAIN customers) = MaxCustomers
    /\ transactions # {}

\* C21: every manual transaction of the store has a strictly positive
\* amount, whatever amount text the form accepted.
C21_StoredAmountIsPositive ==
    \A t \in transactions : t.amount > 0

---------------------------------------------------------------------------
(* Properties of the report (specification ReportSpec) *)

\* The place in the order of the report of a row: by the name of its
\* customer, a row whose customer is not known counting as the empty name.
rowRank(row) ==
    IF row.custName = "Unknown" THEN 0 ELSE nameRank(row.custName)

\* C23: an export writes nothing to the customers, bills or transactions of
\* the store; the file has one row per bill whose month is the selected
\* period, each with the readings, penalty and status of its bill, the rows
\* ordered by customer name; and a second export of the same period over
\* the same snapshot gives the same file.
C23_ExportIsPureProjection ==
    /\ [](last.op = "reportExported" =>
            LET selectedMonth == last.input[1]
                rows == last.pre.rows
                inMonth == {i \in 1..Len(bills) : bills[i].month = selectedMonth}
            IN  /\ Len(rows) = Cardinality(inMonth)
                /\ \A i \in inMonth :
                      \E k \in 1..Len(rows) :
                          /\ rows[k].prevReading = bills[i].prevReading
                          /\ rows[k].currReading = bills[i].currReading
                          /\ rows[k].denda = bills[i].details.denda
                          /\ rows[k].status = "Lunas" <=> bills[i].isPaid
                /\ \A k \in 1..Len(rows) : rows[k].no = k
                /\ \A k, l \in 1..Len(rows) :
                      k < l => rowRank(rows[k]) <= rowRank(rows[l]))
    /\ [][last'.op = "reportExported" =>
            /\ customers' = customers
            /\ bills' = bills
            /\ transactions' = transactions
            /\ (last.op = "reportExported" /\ last.input = last'.input) =>
                  last'.pre = last.pre]_vars

\* A report of two bills, in which the later bill belongs to the customer
\* whose name comes last.
C23_ReportReorderedByName ==
    /\ last.op = "reportExported"
    /\ Len(last.pre.rows) = 2
    /\ bills[2].customerId = 1
    /\ last.pre.rows[1].custName = "Ani"
    /\ last.pre.rows[2].custName = "Siti"
    /\ last.pre.rows[1].status # last.pre.rows[2].status

\* C22: a bill whose customer the viewer does not find stops nothing:
\* togglePaid writes the bill, which then has amount = beban + pakai +
\* denda; the cash book lists every paid bill once; the report counts every
\* bill of its period and has a row for it, and shows the missing customer
\* as the placeholder "Unknown".
C22_MissingCustomerStopsNothing ==
    /\ [](/\ rev \in {"B", "C"} =>
                \A i \in 1..Len(bills) :
                    bills[i].isPaid => Cardinality(billInflows(i)) = 1
          /\ last.op = "reportExported" =>
                LET selectedMonth == last.input[1]
                    known == last.input[2]
                    rows == last.pre.rows
                    inMonth == {i \in 1..Len(bills) :
                                   bills[i].month = selectedMonth}
                IN  /\ Len(rows) = Cardinality(inMonth)
                    /\ last.pre.summary.totalIncome =
                          SumAmount({bills[i] : i \in {j \in inMonth : bills[j].isPaid}})
                    /\ \A i \in inMonth :
                          bills[i].customerId \notin known =>
                              \E k \in 1..Len(rows) :
                                  /\ rows[k].custName = "Unknown"
                                  /\ rows[k].currReading = bills[i].currReading
                                  /\ rows[k].status = "Lunas" <=> bills[i].isPaid)
    /\ [][\A v \in Viewers, i \in BillIds :
              TogglePaid(v, i, FALSE, TRUE) =>
                  /\ last'.op \in {"markPaid", "markUnpaid"}
                  /\ bills'[i].isPaid = ~snapPaid[v][i]
                  /\ bills'[i].amount =
                        bills'[i].details.beban + bills'[i].details.pakai
                        + bills'[i].details.denda]_vars

\* A report of two bills in a viewer that knows neither customer, one of the
\* bills settled.
C22_ReportOfUnknownCustomers ==
    /\ last.op = "reportExported"
    /\ last.input[2] = {}
    /\ Len(last.pre.rows) = 2
    /\ \A k \in 1..2 : last.pre.rows[k].custName = "Unknown"
    /\ \E k \in 1..2 : last.pre.rows[k].status = "Lunas"
    /\ last.pre.summary.totalIncome > 0

---------------------------------------------------------------------------
(* Properties of the messages (specification NoticeSpec) *)

\* C29: a message is opened only after the writes it reports succeeded: the
\* bill notice only by a save whose bill is in the store and whose reading
\* advance is in the store, the payment confirmation only by a toggle that
\* left the bill paid in the store; there is no message after mark-unpaid,
\* for a customer whose phone is empty or blank, or by a handler that ended
\* in an alert.
C29_MessageOnlyAfterWrites ==
    /\ last.wa \in {"none", "billNotice", "paymentConfirmation"}
    /\ last.wa = "billNotice" =>
          /\ last.op = "readingAdvanced"
          /\ last.bill \in 1..Len(bills)
          /\ LET b == bills[last.bill]
             IN  /\ customers[b.customerId].lastMeterReading = b.currReading
                 /\ custPhones[b.customerId] \notin {"", " "}
    /\ last.wa = "paymentConfirmation" =>
          /\ last.op = "markPaid"
          /\ bills[last.bill].isPaid
          /\ bills[last.bill].paidDate = now
          /\ custPhones[bills[last.bill].customerId] \notin {"", " "}
    /\ last.op = "markUnpaid" => last.wa = "none"
    /\ last.alert => last.wa = "none"
    /\ last.op \in {"addBillFailed", "advanceFailed", "toggleFailed",
                    "billAdded"} => last.wa = "none"

\* The operator has recorded for both customers, a write failed on the way,
\* and the settlement of the bill of the customer with a phone opened the
\* payment confirmation.
C29_ConfirmationAfterSettlement ==
    /\ last.wa = "paymentConfirmation"
    /\ Len(bills) = 2
    /\ bills[1].customerId # bills[2].customerId
    /\ customers[2].lastMeterReading = 0
    /\ \E i \in 1..2 : bills[i].customerId = 2

---------------------------------------------------------------------------
(* Properties of the bill list (specification NoticeSpec) *)

\* C30: for every unpaid bill, at every instant, for every category and
\* whether or not the viewer's list holds the owning customer, the amount
\* the bill list shows is the amount togglePaid writes when the bill is
\* marked paid at that instant, and in the revisions whose list shows a
\* penalty the penalty shown is the details.denda togglePaid writes; a bill
\* that has just been marked paid holds what the list showed before.
C30_ListShowsWhatSettlementStores ==
    /\ [](\A i \in 1..Len(bills), found \in BOOLEAN :
            ~bills[i].isPaid =>
                LET type == customers[bills[i].customerId].type
                    paid == toggled(bills[i], TRUE, found, type)
                IN  /\ displayAmount(bills[i], found, type) = paid.amount
                    /\ rev # "B" =>
                          displayDenda(bills[i], found, type)
                              = paid.details.denda)
    /\ [][last'.op = "markPaid" =>
            \E found \in BOOLEAN :
                LET i == last'.bill
                    type == customers[bills[i].customerId].type
                IN  /\ bills'[i].amount = displayAmount(bills[i], found, type)
                    /\ rev # "B" =>
                          bills'[i].details.denda
                              = displayDenda(bills[i], found, type)]_vars

\* A bill of a Sosial customer from an earlier month has been marked paid by
\* a viewer whose list lacks the customer: the penalty is charged.
C30_PenaltyOfMissingSocialCustomer ==
    /\ last.op = "markPaid"
    /\ rev = "C"
    /\ customers[bills[last.bill].customerId].type = "Sosial"
    /\ bills[last.bill].month < getCurrentMonth
    /\ bills[last.bill].details.denda = BIAYA_DENDA
    /\ bills[last.bill].amount = last.pre.amount + BIAYA_DENDA

===========================================================================
